---- MODULE Spec2Model ----
(***************************************************************************)
(* Account and messaging back end: the user service and controller        *)
(* (server/services/user.service.ts, server/controllers/user.controller.ts)*)
(* and the message service and controller                                  *)
(* (server/services/message.service.ts, messageController).                *)
(*                                                                         *)
(* Strings are sequences of one-character strings, so that trim() is       *)
(* computed.  An error message is a sequence of text pieces, so that a     *)
(* template literal is a concatenation and includes() a search.            *)
(* A JavaScript object is a function from field names to values; an        *)
(* undefined field is a field outside the DOMAIN.  A value that may be     *)
(* null is a sequence of zero or one elements.                             *)
(***************************************************************************)
EXTENDS Integers, Sequences, FiniteSets, TLC

VARIABLES
  users,        \* the users collection, in storage order
  nextId,       \* number of _id values the users collection has handed out
  uniqueIndex,  \* whether the users schema (models/users.model) makes username unique
  clock,        \* the server's current time, read by new Date()
  pc,           \* pc[p]: "idle", or "saving" between saveUser's two awaits
  pending,      \* pending[p]: the saveUser call in flight in p
  last,         \* the call that completed most recently, with its outcome
  messages,     \* the messages collection, in storage order
  msgNextId,    \* number of _id values the messages collection has handed out
  subscribers,  \* the sockets connected right now
  inbox,        \* inbox[s]: the messageUpdate events socket s has received
  mpc,          \* mpc[p]: "idle", or "saved" between saveMessage and emit
  mpending,     \* mpending[p]: what saveMessage resolved to in p
  mlast         \* the messaging request that completed most recently

userVars == <<users, nextId, uniqueIndex, clock, pc, pending, last>>
msgVars  == <<messages, msgNextId, subscribers, inbox, mpc, mpending, mlast>>
vars     == <<userVars, msgVars>>

(***************************************************************************)
(* Bounds                                                                  *)
(***************************************************************************)
MaxId    == 2     \* accounts ever inserted
MaxClock == 1     \* ticks of the clock
MaxMsgs  == 2     \* messages ever inserted

Procs == {1, 2}        \* requests the event loop has in flight

(***************************************************************************)
(* Strings                                                                 *)
(***************************************************************************)
Empty == << >>
Blank == << " " >>
Ua    == << "a" >>
Ub    == << "b" >>
Px    == << "x" >>
Py    == << "y" >>
PxSp  == << "x", " " >>

RECURSIVE trimStart(_)
trimStart(s) == IF s # << >> /\ Head(s) = " " THEN trimStart(Tail(s)) ELSE s

RECURSIVE trimEnd(_)
trimEnd(s) ==
  IF s # << >> /\ s[Len(s)] = " " THEN trimEnd(SubSeq(s, 1, Len(s) - 1)) ELSE s

trim(s) == trimEnd(trimStart(s))

\* text.includes(piece), for a piece that never straddles two pieces of text
includes(text, piece) == \E i \in DOMAIN text : text[i] = piece

(***************************************************************************)
(* Objects                                                                 *)
(***************************************************************************)
Has(obj, field) == field \in DOMAIN obj

\* { ...obj, ...over }
Spread(obj, over) ==
  [k \in DOMAIN obj \cup DOMAIN over |-> IF k \in DOMAIN over THEN over[k] ELSE obj[k]]

NoFields == [k \in {} |-> 0]

\* Error(message), and `${error}` of it
Error(message) == [name |-> "Error", message |-> message]
errorToString(error) == << error.name, ": " >> \o error.message

\* what the driver rejects with when the database cannot serve the operation
DbError == [name |-> "MongoNetworkError", message |-> << "connection lost" >>]
\* what the driver rejects with when an insert violates the unique index
DupKeyError == [name |-> "MongoServerError", message |-> << "E11000 duplicate key error" >>]

(***************************************************************************)
(* The users collection (Mongoose model operations)                        *)
(***************************************************************************)
Matching(coll, username) == {i \in DOMAIN coll : coll[i].username = username}

FirstMatch(coll, username) ==
  CHOOSE i \in Matching(coll, username) : \A j \in Matching(coll, username) : i <= j

RemoveAt(coll, i) == SubSeq(coll, 1, i - 1) \o SubSeq(coll, i + 1, Len(coll))

\* UserModel.findOne({ username }): the first match, or null
findOne(coll, username) ==
  IF Matching(coll, username) = {} THEN << >>
  ELSE << coll[FirstMatch(coll, username)] >>

\* new UserModel(user): the document, with its _id
newUserModel_sanitized(user, id) ==
  Spread([k \in DOMAIN user \ {"password"} |-> user[k]], [_id |-> id])

newUserModel(user, id) == Spread(user, [_id |-> id])

\* newUser.save(): inserts, unless the unique index rejects the username
save(coll, doc, unique) ==
  IF unique /\ Matching(coll, doc.username) # {}
  THEN [threw |-> TRUE, error |-> DupKeyError, coll |-> coll, doc |-> << >>]
  ELSE [threw |-> FALSE, error |-> DbError, coll |-> Append(coll, doc), doc |-> << doc >>]

\* UserModel.findOneAndUpdate({ username }, updates, { new: true })
findOneAndUpdate_replace(coll, username, updates) ==
  IF Matching(coll, username) = {} THEN [coll |-> coll, doc |-> << >>]
  ELSE LET i == FirstMatch(coll, username)
           d == Spread([username |-> username], updates)
       IN  [coll |-> [coll EXCEPT ![i] = d], doc |-> << d >>]

findOneAndUpdate_unsaved(coll, username, updates) ==
  IF Matching(coll, username) = {} THEN [coll |-> coll, doc |-> << >>]
  ELSE [coll |-> coll, doc |-> << Spread(coll[FirstMatch(coll, username)], updates) >>]

findOneAndUpdate(coll, username, updates) ==
  IF Matching(coll, username) = {} THEN [coll |-> coll, doc |-> << >>]
  ELSE LET i == FirstMatch(coll, username)
           d == Spread(coll[i], updates)
       IN  [coll |-> [coll EXCEPT ![i] = d], doc |-> << d >>]

\* UserModel.findOneAndDelete({ username })
findOneAndDelete_first(coll, username) ==
  IF Matching(coll, username) = {} THEN [coll |-> coll, doc |-> << >>]
  ELSE [coll |-> RemoveAt(coll, 1), doc |-> << coll[FirstMatch(coll, username)] >>]

findOneAndDelete(coll, username) ==
  IF Matching(coll, username) = {} THEN [coll |-> coll, doc |-> << >>]
  ELSE LET i == FirstMatch(coll, username)
       IN  [coll |-> RemoveAt(coll, i), doc |-> << coll[i] >>]

(***************************************************************************)
(* user.service.ts                                                         *)
(* A call's outcome: threw says whether the promise rejected; value is the *)
(* resolved value (a SafeUser or { error }) or the Error it rejected with. *)
(***************************************************************************)
Resolve(value) == [threw |-> FALSE, value |-> value]
Reject(error)  == [threw |-> TRUE,  value |-> error]

sanitizeUserForResponse_leak(user) == user

sanitizeUserForResponse(user) == [k \in DOMAIN user \ {"password"} |-> user[k]]

\* saveUser up to its first await: the lookup.  go says whether it goes on
\* to insert; out is the outcome when it does not.
saveUserLookup_nocheck(coll, user, dbFail) ==
  IF dbFail
  THEN [go |-> FALSE,
        out |-> Reject(Error(<< "Failed to save user: " >> \o errorToString(DbError)))]
  ELSE [go |-> TRUE, out |-> Resolve(NoFields)]

saveUserLookup(coll, user, dbFail) ==
  IF dbFail
  THEN [go |-> FALSE,
        out |-> Reject(Error(<< "Failed to save user: " >> \o errorToString(DbError)))]
  ELSE IF findOne(coll, user.username) # << >>
  THEN [go |-> FALSE,
        out |-> Reject(Error(<< "Failed to save user: " >>
                             \o errorToString(Error(<< "User already exists" >>))))]
  ELSE [go |-> TRUE, out |-> Resolve(NoFields)]

\* saveUser after the lookup: the insert
saveUserInsert(coll, user, id, unique, dbFail) ==
  LET r == save(coll, newUserModel(user, id), unique)
  IN  IF dbFail
      THEN [coll |-> coll,
            out |-> Reject(Error(<< "Failed to save user: " >> \o errorToString(DbError)))]
      ELSE IF r.threw
      THEN [coll |-> coll,
            out |-> Reject(Error(<< "Failed to save user: " >> \o errorToString(r.error)))]
      ELSE [coll |-> r.coll, out |-> Resolve(sanitizeUserForResponse(r.doc[1]))]

getUserByUsername_deleting(coll, username, dbFail) ==
  LET r == findOneAndDelete(coll, username)
  IN  IF dbFail
      THEN [coll |-> coll,
            out |-> Resolve([error |-> << "Error when getting user: " >>
                                       \o errorToString(DbError)])]
      ELSE IF r.doc = << >>
      THEN [coll |-> coll,
            out |-> Resolve([error |-> << "Error when getting user: " >>
                                       \o errorToString(Error(<< "User does not exist" >>))])]
      ELSE [coll |-> r.coll, out |-> Resolve(sanitizeUserForResponse(r.doc[1]))]

getUserByUsername(coll, username, dbFail) ==
  LET user == findOne(coll, username)
  IN  IF dbFail
      THEN [coll |-> coll,
            out |-> Resolve([error |-> << "Error when getting user: " >>
                                       \o errorToString(DbError)])]
      ELSE IF user = << >>
      THEN [coll |-> coll,
            out |-> Resolve([error |-> << "Error when getting user: " >>
                                       \o errorToString(Error(<< "User does not exist" >>))])]
      ELSE [coll |-> coll, out |-> Resolve(sanitizeUserForResponse(user[1]))]

loginUser(coll, loginCredentials, dbFail) ==
  LET user == findOne(coll, loginCredentials.username)
  IN  IF dbFail
      THEN [coll |-> coll,
            out |-> Resolve([error |-> << "Failed to login user: " >>
                                       \o errorToString(DbError)])]
      ELSE IF user = << >>
      THEN [coll |-> coll,
            out |-> Resolve([error |-> << "Failed to login user: " >>
                                       \o errorToString(Error(<< "User does not exist" >>))])]
      ELSE IF Has(user[1], "password") /\ user[1].password # loginCredentials.password
      THEN [coll |-> coll,
            out |-> Resolve([error |-> << "Failed to login user: " >>
                                       \o errorToString(Error(<< "Invalid password" >>))])]
      ELSE [coll |-> coll, out |-> Resolve(sanitizeUserForResponse(user[1]))]

deleteUserByUsername(coll, username, dbFail) ==
  LET r == findOneAndDelete(coll, username)
  IN  IF dbFail
      THEN [coll |-> coll,
            out |-> Resolve([error |-> << "Failed to delete user: " >>
                                       \o errorToString(DbError)])]
      ELSE IF r.doc = << >>
      THEN [coll |-> coll,
            out |-> Resolve([error |-> << "Failed to delete user: " >>
                                       \o errorToString(Error(<< "User does not exist" >>))])]
      ELSE [coll |-> r.coll, out |-> Resolve(sanitizeUserForResponse(r.doc[1]))]

updateUser(coll, username, updates, dbFail) ==
  LET r == findOneAndUpdate(coll, username, updates)
  IN  IF dbFail \/ r.doc = << >>
      THEN [coll |-> coll, out |-> Resolve([error |-> << "Failed to update user" >>])]
      ELSE [coll |-> r.coll, out |-> Resolve(sanitizeUserForResponse(r.doc[1]))]

(***************************************************************************)
(* user.controller.ts                                                      *)
(***************************************************************************)
Reply(status, body) == [status |-> status, body |-> body]
NoReply == Reply(0, NoFields)

isUserBodyValid_notrim(body) ==
  ~ ( \/ ~Has(body, "username") \/ body.username = Empty
      \/ ~Has(body, "password") \/ body.password = Empty )

isUserBodyValid(body) ==
  ~ ( \/ ~Has(body, "username") \/ body.username = Empty
      \/ ~Has(body, "password") \/ body.password = Empty
      \/ trim(body.username) = Empty
      \/ trim(body.password) = Empty )

isUserNameParameterValid(username) == username # Empty /\ trim(username) # Empty

InvalidBodyReply ==
  Reply(400, [error |->
    << "Invalid request: username and password are required and cannot be empty" >>])

InvalidParamReply ==
  Reply(400, [error |-> << "Invalid request: username is required and cannot be empty" >>])

\* router.get('/getUser/:username'), router.delete('/deleteUser/:username'):
\* a path with nothing after the last slash matches no route, and the
\* framework answers 404 without calling a handler
matchesRoute(username) == username # Empty

RouteNotFoundReply == Reply(404, NoFields)

\* createUser, from the await of saveUser on
createUserReply_exact(out) ==
  IF ~out.threw THEN Reply(201, out.value)
  ELSE IF out.value.message = << "User already exists" >>
  THEN Reply(409, [error |-> << "Failed to create user: User already exists" >>])
  ELSE Reply(500, [error |-> << "Failed to create user: " >> \o out.value.message])

createUserReply_conflict(out) ==
  IF ~out.threw THEN Reply(201, out.value)
  ELSE Reply(409, [error |-> << "Failed to create user: User already exists" >>])

createUserReply(out) ==
  IF ~out.threw THEN Reply(201, out.value)
  ELSE IF includes(out.value.message, "User already exists")
  THEN Reply(409, [error |-> << "Failed to create user: User already exists" >>])
  ELSE Reply(500, [error |-> << "Failed to create user: " >> \o out.value.message])

\* userLogin, from the await of loginUser on
userLoginReply_tells(out) ==
  IF out.threw
  THEN Reply(500, [error |-> << "Failed to login user: " >> \o errorToString(out.value)])
  ELSE IF Has(out.value, "error")
  THEN IF includes(out.value.error, "User does not exist")
       THEN Reply(404, [error |-> << "Failed to login user: User not found" >>])
       ELSE IF includes(out.value.error, "Invalid password")
       THEN Reply(401, [error |-> << "Failed to login user: Invalid credentials" >>])
       ELSE Reply(500, [error |-> out.value.error])
  ELSE Reply(200, out.value)

userLoginReply(out) ==
  IF out.threw
  THEN Reply(500, [error |-> << "Failed to login user: " >> \o errorToString(out.value)])
  ELSE IF Has(out.value, "error")
  THEN IF includes(out.value.error, "User does not exist")
       THEN Reply(401, [error |-> << "Failed to login user: Invalid credentials" >>])
       ELSE IF includes(out.value.error, "Invalid password")
       THEN Reply(401, [error |-> << "Failed to login user: Invalid credentials" >>])
       ELSE Reply(500, [error |-> out.value.error])
  ELSE Reply(200, out.value)

\* getUser, from the await of getUserByUsername on
getUserReply(out) ==
  IF out.threw
  THEN Reply(500, [error |-> << "Failed to get user: " >> \o errorToString(out.value)])
  ELSE IF Has(out.value, "error")
  THEN IF includes(out.value.error, "User does not exist")
       THEN Reply(404, [error |-> << "User not found" >>])
       ELSE Reply(500, [error |-> out.value.error])
  ELSE Reply(200, out.value)

\* deleteUser, from the await of deleteUserByUsername on
deleteUserReply(out) ==
  IF out.threw
  THEN Reply(500, [error |-> << "Failed to delete user: " >> \o errorToString(out.value)])
  ELSE IF Has(out.value, "error")
  THEN IF includes(out.value.error, "User does not exist")
       THEN Reply(404, [error |-> << "Failed to delete user: User does not exist" >>])
       ELSE Reply(500, [error |-> out.value.error])
  ELSE Reply(200, out.value)

\* resetPassword, from the await of updateUser on
resetPasswordReply(out) ==
  IF out.threw
  THEN Reply(500, [error |-> << "Failed to update user password: " >>
                             \o errorToString(out.value)])
  ELSE IF Has(out.value, "error")
  THEN IF includes(out.value.error, "User does not exist")
       THEN Reply(404, [error |-> << "Failed to update user password: User not found" >>])
       ELSE Reply(500, [error |-> out.value.error])
  ELSE Reply(200, out.value)

(***************************************************************************)
(* Inputs                                                                  *)
(***************************************************************************)
\* request bodies: the well-formed ones, and one for each way of being
\* malformed (a field missing, empty, or only white space)
ValidBodies == {[username |-> u, password |-> w] : u \in {Ua, Ub}, w \in {Px, Py}}
InvalidBodies ==
  { NoFields,
    [password |-> Px],
    [username |-> Ua],
    [username |-> Empty, password |-> Px],
    [username |-> Ua, password |-> Empty],
    [username |-> Blank, password |-> Px],
    [username |-> Ua, password |-> Blank] }
Bodies == ValidBodies \cup InvalidBodies

\* what a client puts after /getUser/ and /deleteUser/
UsernameParams == {Empty, Blank, Ua, Ub}

\* what the service functions are called with directly, beyond what the
\* controller passes on: an account without a password, an empty or padded
\* password, an empty username, an empty update
ServiceUsers(t) == {[username |-> u, dateJoined |-> t] : u \in {Ua, Ub}}
ServiceCredentials ==
  {[username |-> u, password |-> w] : u \in {Empty, Ua}, w \in {Empty, Px, PxSp}}
ServiceUsernames == {Empty, Ua}
ServiceUpdates == {NoFields, [password |-> Py]}

(***************************************************************************)
(* State                                                                   *)
(***************************************************************************)
\* a completed call: the service function, who called it, with what, whether
\* the service was called at all, whether the database failed it, the users
\* collection as the completing step found it, the outcome and the response
Completed(op, via, input, called, dbFail, out, http) ==
  [op |-> op, via |-> via, input |-> input, called |-> called, dbFail |-> dbFail,
   before |-> users, out |-> out, http |-> http]

NoCall == Resolve(NoFields)
NoPending == [user |-> NoFields, via |-> "none", input |-> NoFields]

Saving == {p \in Procs : pc[p] = "saving"}

\* a new request takes the first free slot
Free(p) == pc[p] = "idle" /\ \A q \in Procs : pc[q] = "idle" => ~(q < p)

UserInit ==
  /\ users = << >>
  /\ nextId = 0
  /\ uniqueIndex \in BOOLEAN
  /\ clock = 0
  /\ pc = [p \in Procs |-> "idle"]
  /\ pending = [p \in Procs |-> NoPending]
  /\ last = Completed("none", "none", NoFields, FALSE, FALSE, NoCall, NoReply)

(***************************************************************************)
(* User requests.  A request handler runs to its next await in one step;  *)
(* the database serves the awaited operation in that step, or fails it     *)
(* (dbFail).  Only saveUser awaits twice.                                  *)
(***************************************************************************)
HttpReply(via, reply) == IF via = "http" THEN reply ELSE NoReply

\* saveUser (user.service.ts 136-143), called with user by via
SaveUserBegin(p, user, via, input, dbFail) ==
  LET r == saveUserLookup(users, user, dbFail)
  IN  IF r.go
      THEN /\ nextId + Cardinality(Saving) < MaxId
           /\ pc' = [pc EXCEPT ![p] = "saving"]
           /\ pending' = [pending EXCEPT ![p] = [user |-> user, via |-> via, input |-> input]]
           /\ UNCHANGED <<users, nextId, last>>
      ELSE /\ last' = Completed("saveUser", via, input, TRUE, dbFail, r.out,
                                HttpReply(via, createUserReply(r.out)))
           /\ UNCHANGED <<users, nextId, pc, pending>>

\* POST /user/signup
createUser(p) ==
  /\ Free(p)
  /\ \E body \in Bodies, dbFail \in BOOLEAN :
       IF ~isUserBodyValid(body)
       THEN /\ last' = Completed("saveUser", "http", body, FALSE, FALSE, NoCall,
                                 InvalidBodyReply)
            /\ UNCHANGED <<users, nextId, pc, pending>>
       ELSE SaveUserBegin(p, Spread(body, [dateJoined |-> clock]), "http", body, dbFail)
  /\ UNCHANGED <<uniqueIndex, clock, msgVars>>

\* saveUser(user), called directly
callSaveUser(p) ==
  /\ Free(p)
  /\ \E user \in ServiceUsers(clock), dbFail \in BOOLEAN :
       SaveUserBegin(p, user, "service", user, dbFail)
  /\ UNCHANGED <<uniqueIndex, clock, msgVars>>

\* saveUser (user.service.ts 144-149) and the rest of createUser
saveUserResume(p) ==
  /\ pc[p] = "saving"
  /\ \E dbFail \in BOOLEAN :
       LET r == saveUserInsert(users, pending[p].user, nextId + 1, uniqueIndex, dbFail)
       IN  /\ users' = r.coll
           /\ last' = Completed("saveUser", pending[p].via, pending[p].input, TRUE, dbFail,
                                r.out,
                                HttpReply(pending[p].via, createUserReply(r.out)))
  /\ nextId' = nextId + 1
  /\ pc' = [pc EXCEPT ![p] = "idle"]
  /\ pending' = [pending EXCEPT ![p] = NoPending]
  /\ UNCHANGED <<uniqueIndex, clock, msgVars>>

\* POST /user/login
userLogin(p) ==
  /\ Free(p)
  /\ \E body \in Bodies, dbFail \in BOOLEAN :
       IF ~isUserBodyValid(body)
       THEN /\ last' = Completed("loginUser", "http", body, FALSE, FALSE, NoCall,
                                 InvalidBodyReply)
            /\ UNCHANGED users
       ELSE LET r == loginUser(users, body, dbFail)
            IN  /\ users' = r.coll
                /\ last' = Completed("loginUser", "http", body, TRUE, dbFail, r.out,
                                     userLoginReply(r.out))
  /\ UNCHANGED <<nextId, uniqueIndex, clock, pc, pending, msgVars>>

\* loginUser(loginCredentials), called directly
callLoginUser(p) ==
  /\ Free(p)
  /\ \E cred \in ServiceCredentials, dbFail \in BOOLEAN :
       LET r == loginUser(users, cred, dbFail)
       IN  /\ users' = r.coll
           /\ last' = Completed("loginUser", "service", cred, TRUE, dbFail, r.out, NoReply)
  /\ UNCHANGED <<nextId, uniqueIndex, clock, pc, pending, msgVars>>

\* GET /user/getUser/:username
getUser(p) ==
  /\ Free(p)
  /\ \E username \in UsernameParams, dbFail \in BOOLEAN :
       IF ~matchesRoute(username)
       THEN /\ last' = Completed("getUserByUsername", "http", [username |-> username],
                                 FALSE, FALSE, NoCall, RouteNotFoundReply)
            /\ UNCHANGED users
       ELSE IF ~isUserNameParameterValid(username)
       THEN /\ last' = Completed("getUserByUsername", "http", [username |-> username],
                                 FALSE, FALSE, NoCall, InvalidParamReply)
            /\ UNCHANGED users
       ELSE LET r == getUserByUsername(users, username, dbFail)
            IN  /\ users' = r.coll
                /\ last' = Completed("getUserByUsername", "http",
                                     [username |-> username], TRUE, dbFail, r.out,
                                     getUserReply(r.out))
  /\ UNCHANGED <<nextId, uniqueIndex, clock, pc, pending, msgVars>>

\* getUserByUsername(username), called directly
callGetUserByUsername(p) ==
  /\ Free(p)
  /\ \E username \in ServiceUsernames, dbFail \in BOOLEAN :
       LET r == getUserByUsername(users, username, dbFail)
       IN  /\ users' = r.coll
           /\ last' = Completed("getUserByUsername", "service",
                                [username |-> username], TRUE, dbFail, r.out, NoReply)
  /\ UNCHANGED <<nextId, uniqueIndex, clock, pc, pending, msgVars>>

\* DELETE /user/deleteUser/:username
deleteUser(p) ==
  /\ Free(p)
  /\ \E username \in UsernameParams, dbFail \in BOOLEAN :
       IF ~matchesRoute(username)
       THEN /\ last' = Completed("deleteUserByUsername", "http", [username |-> username],
                                 FALSE, FALSE, NoCall, RouteNotFoundReply)
            /\ UNCHANGED users
       ELSE IF ~isUserNameParameterValid(username)
       THEN /\ last' = Completed("deleteUserByUsername", "http", [username |-> username],
                                 FALSE, FALSE, NoCall, InvalidParamReply)
            /\ UNCHANGED users
       ELSE LET r == deleteUserByUsername(users, username, dbFail)
            IN  /\ users' = r.coll
                /\ last' = Completed("deleteUserByUsername", "http",
                                     [username |-> username], TRUE, dbFail, r.out,
                                     deleteUserReply(r.out))
  /\ UNCHANGED <<nextId, uniqueIndex, clock, pc, pending, msgVars>>

\* deleteUserByUsername(username), called directly
callDeleteUserByUsername(p) ==
  /\ Free(p)
  /\ \E username \in ServiceUsernames, dbFail \in BOOLEAN :
       LET r == deleteUserByUsername(users, username, dbFail)
       IN  /\ users' = r.coll
           /\ last' = Completed("deleteUserByUsername", "service",
                                [username |-> username], TRUE, dbFail, r.out, NoReply)
  /\ UNCHANGED <<nextId, uniqueIndex, clock, pc, pending, msgVars>>

\* PATCH /user/resetPassword
resetPassword(p) ==
  /\ Free(p)
  /\ \E body \in Bodies, dbFail \in BOOLEAN :
       IF ~isUserBodyValid(body)
       THEN /\ last' = Completed("updateUser", "http", body, FALSE, FALSE, NoCall,
                                 InvalidBodyReply)
            /\ UNCHANGED users
       ELSE LET r == updateUser(users, body.username, [password |-> body.password], dbFail)
            IN  /\ users' = r.coll
                /\ last' = Completed("updateUser", "http", body, TRUE, dbFail, r.out,
                                     resetPasswordReply(r.out))
  /\ UNCHANGED <<nextId, uniqueIndex, clock, pc, pending, msgVars>>

\* updateUser(username, updates), called directly
callUpdateUser(p) ==
  /\ Free(p)
  /\ \E username \in ServiceUsernames, updates \in ServiceUpdates, dbFail \in BOOLEAN :
       LET r == updateUser(users, username, updates, dbFail)
       IN  /\ users' = r.coll
           /\ last' = Completed("updateUser", "service",
                                [username |-> username, updates |-> updates],
                                TRUE, dbFail, r.out, NoReply)
  /\ UNCHANGED <<nextId, uniqueIndex, clock, pc, pending, msgVars>>

\* time passes
Tick ==
  /\ clock < MaxClock
  /\ clock' = clock + 1
  /\ UNCHANGED <<users, nextId, uniqueIndex, pc, pending, last, msgVars>>

UserStep(p) ==
  \/ createUser(p)
  \/ callSaveUser(p)
  \/ saveUserResume(p)
  \/ userLogin(p)
  \/ callLoginUser(p)
  \/ getUser(p)
  \/ callGetUserByUsername(p)
  \/ deleteUser(p)
  \/ callDeleteUserByUsername(p)
  \/ resetPassword(p)
  \/ callUpdateUser(p)

\* requests interleave at their awaits
UserNext == (\E p \in Procs : UserStep(p)) \/ Tick

\* requests run one after another: each takes the first slot, which the one
\* before it has left
SeqUserNext == UserStep(1) \/ Tick

(***************************************************************************)
(* message.service.ts                                                      *)
(***************************************************************************)
\* MessageModel.create(message): the stored document, with its _id
create_replacing(coll, message, id) ==
  LET doc == Spread(message, [_id |-> id])
      same == {i \in DOMAIN coll : coll[i].msgFrom = message.msgFrom}
  IN  IF same = {} THEN [coll |-> Append(coll, doc), doc |-> doc]
      ELSE [coll |-> [i \in DOMAIN coll |-> IF i \in same THEN doc ELSE coll[i]],
            doc |-> doc]

create(coll, message, id) ==
  LET doc == Spread(message, [_id |-> id])
  IN  [coll |-> Append(coll, doc), doc |-> doc]

saveMessage_unstored(coll, message, id, dbFail) ==
  IF dbFail
  THEN [coll |-> coll,
        out |-> Resolve([error |-> << "Error when saving message: " >>
                                   \o errorToString(DbError)])]
  ELSE [coll |-> coll, out |-> Resolve(create(coll, message, id).doc)]

saveMessage(coll, message, id, dbFail) ==
  IF dbFail
  THEN [coll |-> coll,
        out |-> Resolve([error |-> << "Error when saving message: " >>
                                   \o errorToString(DbError)])]
  ELSE [coll |-> create(coll, message, id).coll,
        out |-> Resolve(create(coll, message, id).doc)]

\* the comparator of getMessages' sort
compareMessages_reversed(messageA, messageB) ==
  messageB.msgDateTime - messageA.msgDateTime

compareMessages(messageA, messageB) == messageA.msgDateTime - messageB.msgDateTime

\* Array.prototype.sort(compare) is a stable sort: an element goes before
\* the first one that compares greater than it
RECURSIVE insertSorted(_, _)
insertSorted(sorted, x) ==
  IF sorted = << >> THEN << x >>
  ELSE IF compareMessages(Head(sorted), x) > 0 THEN << x >> \o sorted
  ELSE << Head(sorted) >> \o insertSorted(Tail(sorted), x)

RECURSIVE sort(_)
sort(list) ==
  IF list = << >> THEN << >>
  ELSE insertSorted(sort(SubSeq(list, 1, Len(list) - 1)), list[Len(list)])

getMessages_raising(coll, dbFail) ==
  IF dbFail THEN Reject(DbError) ELSE Resolve(sort(coll))

getMessages(coll, dbFail) ==
  IF dbFail THEN Resolve(<< >>) ELSE Resolve(sort(coll))

(***************************************************************************)
(* messageController                                                       *)
(***************************************************************************)
\* reading a field of req.body.messageToAdd throws when messageToAdd is absent
readsMessageToAdd(body) == Has(body, "messageToAdd")

isRequestValid_nodate(body) ==
  /\ Has(body.messageToAdd, "msg")
  /\ Has(body.messageToAdd, "msgFrom")

isRequestValid(body) ==
  /\ Has(body.messageToAdd, "msg")
  /\ Has(body.messageToAdd, "msgFrom")
  /\ Has(body.messageToAdd, "msgDateTime")

isMessageValid(message) ==
  /\ Has(message, "msg")
  /\ Has(message, "msgFrom")
  /\ Has(message, "msgDateTime")

\* what the client gets when an async handler throws outside a try block:
\* the framework either never learns of the rejected promise and sends
\* nothing, or passes it to its error handler, which answers 500
UnhandledRejectionReplies == {NoReply, Reply(500, << "Internal Server Error" >>)}

\* socket.emit(event): every connected socket receives it
emit_twice(boxes, connected, event) ==
  [s \in DOMAIN boxes |->
    IF s \in connected THEN boxes[s] \o << event, event >> ELSE boxes[s]]

emit_front(boxes, connected, event) ==
  [s \in DOMAIN boxes |->
    IF s \in connected THEN << event >> \o boxes[s] ELSE boxes[s]]

emit(boxes, connected, event) ==
  [s \in DOMAIN boxes |-> IF s \in connected THEN Append(boxes[s], event) ELSE boxes[s]]

\* getMessagesRoute, from the await of getMessages on
getMessagesReply(out) ==
  IF out.threw
  THEN Reply(500, << "Error when getting messages: " >> \o out.value.message)
  ELSE Reply(200, out.value)

(***************************************************************************)
(* Messaging inputs and state                                              *)
(***************************************************************************)
Sockets == {"s1", "s2"}
\* the timestamps clients send: two messages have the same one or not
Dates == {1, 2}
Hi == << "h", "i" >>

ValidMessages == {[msg |-> Hi, msgFrom |-> Ua, msgDateTime |-> d] : d \in Dates}
MessageBodies ==
  {[messageToAdd |-> m] : m \in ValidMessages}
  \cup { NoFields,
         [messageToAdd |-> [msgFrom |-> Ua, msgDateTime |-> 1]],
         [messageToAdd |-> [msg |-> Hi, msgDateTime |-> 1]],
         [messageToAdd |-> [msg |-> Hi, msgFrom |-> Ua]],
         [messageToAdd |-> [msg |-> Empty, msgFrom |-> Ua, msgDateTime |-> 1]] }

MCompleted(op, input, called, failed, out, http) ==
  [op |-> op, input |-> input, called |-> called, failed |-> failed,
   out |-> out, http |-> http]

MNoPending == [input |-> NoFields, out |-> NoCall]

MFree(p) == mpc[p] = "idle" /\ \A q \in Procs : mpc[q] = "idle" => ~(q < p)
Saved == {p \in Procs : mpc[p] = "saved"}

(***************************************************************************)
(* Messaging requests                                                      *)
(***************************************************************************)
\* POST /messaging/addMessage, up to the await of saveMessage; the database
\* serves the create in this step
addMessageRoute(p) ==
  /\ MFree(p)
  /\ \E body \in MessageBodies, dbFail \in BOOLEAN :
       IF ~readsMessageToAdd(body)
       THEN \* TypeError in isRequestValid: the handler's promise rejects
            /\ \E reply \in UnhandledRejectionReplies :
                 mlast' = MCompleted("addMessage", body, FALSE, FALSE, NoCall, reply)
            /\ UNCHANGED <<messages, msgNextId, mpc, mpending>>
       ELSE IF ~isRequestValid(body)
       THEN /\ mlast' = MCompleted("addMessage", body, FALSE, FALSE, NoCall,
                                   Reply(400, << "Invalid request body" >>))
            /\ UNCHANGED <<messages, msgNextId, mpc, mpending>>
       ELSE IF ~isMessageValid(body.messageToAdd)
       THEN /\ mlast' = MCompleted("addMessage", body, FALSE, FALSE, NoCall,
                                   Reply(400, << "Invalid message body" >>))
            /\ UNCHANGED <<messages, msgNextId, mpc, mpending>>
       ELSE LET r == saveMessage(messages, body.messageToAdd, msgNextId + 1, dbFail)
            IN  /\ msgNextId < MaxMsgs
                /\ messages' = r.coll
                /\ msgNextId' = IF dbFail THEN msgNextId ELSE msgNextId + 1
                /\ mpc' = [mpc EXCEPT ![p] = "saved"]
                /\ mpending' = [mpending EXCEPT ![p] = [input |-> body, out |-> r.out]]
                /\ mlast' = MCompleted("saveMessage", body, TRUE, dbFail, r.out, NoReply)
  /\ UNCHANGED <<subscribers, inbox, userVars>>

\* addMessageRoute from the await of saveMessage on (lines 64-73)
addMessageRouteResume(p) ==
  /\ mpc[p] = "saved"
  /\ LET msgFromDb == mpending[p].out.value
     IN  IF Has(msgFromDb, "error")
         THEN /\ mlast' = MCompleted("addMessage", mpending[p].input, TRUE, TRUE,
                                     mpending[p].out,
                                     Reply(500, << "Error when adding a message: " >>
                                                \o msgFromDb.error))
              /\ UNCHANGED inbox
         ELSE /\ inbox' = emit(inbox, subscribers, [msg |-> msgFromDb])
              /\ mlast' = MCompleted("addMessage", mpending[p].input, TRUE, FALSE,
                                     mpending[p].out, Reply(200, msgFromDb))
  /\ mpc' = [mpc EXCEPT ![p] = "idle"]
  /\ mpending' = [mpending EXCEPT ![p] = MNoPending]
  /\ UNCHANGED <<messages, msgNextId, subscribers, userVars>>

\* GET /messaging/getMessages
getMessagesRoute(p) ==
  /\ MFree(p)
  /\ \E dbFail \in BOOLEAN :
       LET out == getMessages(messages, dbFail)
       IN  mlast' = MCompleted("getMessages", NoFields, TRUE, dbFail, out,
                               getMessagesReply(out))
  /\ UNCHANGED <<messages, msgNextId, subscribers, inbox, mpc, mpending, userVars>>

\* a client connects its socket
Connect(s) ==
  /\ s \notin subscribers
  /\ subscribers' = subscribers \cup {s}
  /\ UNCHANGED <<messages, msgNextId, inbox, mpc, mpending, mlast, userVars>>

\* a client's socket disconnects
Disconnect(s) ==
  /\ s \in subscribers
  /\ subscribers' = subscribers \ {s}
  /\ UNCHANGED <<messages, msgNextId, inbox, mpc, mpending, mlast, userVars>>

MsgNext ==
  \/ \E p \in Procs : addMessageRoute(p) \/ addMessageRouteResume(p) \/ getMessagesRoute(p)
  \/ \E s \in Sockets : Connect(s) \/ Disconnect(s)

MsgInit ==
  /\ messages = << >>
  /\ msgNextId = 0
  /\ subscribers = {}
  /\ inbox = [s \in Sockets |-> << >>]
  /\ mpc = [p \in Procs |-> "idle"]
  /\ mpending = [p \in Procs |-> MNoPending]
  /\ mlast = MCompleted("none", NoFields, FALSE, FALSE, NoCall, NoReply)

Init == UserInit /\ MsgInit

\* the schema as the data model describes it: username is a unique index
InitIndexed == Init /\ uniqueIndex = TRUE

Next == UserNext \/ MsgNext

Spec        == Init /\ [][Next]_vars
UserSpec    == Init /\ [][UserNext]_vars
SeqUserSpec == Init /\ [][SeqUserNext]_vars
MsgSpec     == InitIndexed /\ [][MsgNext]_vars

(***************************************************************************)
(* Properties                                                              *)
(***************************************************************************)
\* the completed call c returned an account
Succeeded(c) == c.called /\ ~c.out.threw /\ ~Has(c.out.value, "error")

\* the completed call c failed for the reason named by piece
FailedWith(c, piece) ==
  /\ c.called
  /\ IF c.out.threw THEN includes(c.out.value.message, piece)
     ELSE Has(c.out.value, "error") /\ includes(c.out.value.error, piece)

Accounts(coll, username) == Cardinality(Matching(coll, username))

\* C1: when saveUser, updateUser (password reset) and deleteUserByUsername
\* calls run one after another, the store never holds two accounts with the
\* same username.
C1_OneAccountPerUsername ==
  \A i, j \in DOMAIN users : users[i].username = users[j].username => i = j

C1_Witness ==
  /\ Len(users) = 2
  /\ last.op = "updateUser"
  /\ Succeeded(last)
  /\ Len(last.before) = 2

\* C2: a saveUser call whose insert runs after a concurrent saveUser call for
\* the same username has inserted its account fails with 'User already
\* exists' and adds nothing, unless the database failed it; so exactly one
\* of the concurrent calls succeeds and one account has the username.
C2_ConcurrentSignupConflict ==
  [][ \A p \in Procs :
        ( /\ pc[p] = "saving"
          /\ pc'[p] = "idle"
          /\ Matching(users, pending[p].user.username) # {}
          /\ ~last'.dbFail )
        => /\ FailedWith(last', "User already exists")
           /\ users' = users
           /\ Accounts(users', pending[p].user.username) = 1 ]_vars

\* C3: a saveUser call for a username that has an account rejects with a
\* message containing 'User already exists' and signup answers 409 with
\* 'Failed to create user: User already exists'; a signup for a username
\* that has no account answers 201 with the created account.
C3_SignupConflictOrCreated ==
  (last.op = "saveUser" /\ last.called /\ ~last.dbFail) =>
    IF Matching(last.before, last.input.username) # {}
    THEN /\ last.out.threw
         /\ includes(last.out.value.message, "User already exists")
         /\ last.via = "http" =>
              last.http = Reply(409, [error |->
                            << "Failed to create user: User already exists" >>])
    ELSE /\ Succeeded(last)
         /\ \E i \in DOMAIN users :
              /\ users[i].username = last.input.username
              /\ last.out.value = [k \in DOMAIN users[i] \ {"password"} |-> users[i][k]]
         /\ last.via = "http" => last.http = Reply(201, last.out.value)

C3_Witness ==
  /\ last.op = "saveUser"
  /\ last.via = "http"
  /\ last.called
  /\ ~last.dbFail
  /\ Matching(last.before, last.input.username) # {}
  /\ last.http.status = 409

\* C4: no successful result of saveUser, loginUser, getUserByUsername,
\* deleteUserByUsername or updateUser, and no response that carries it, has a
\* password field.
C4_ResultHasNoPassword ==
  Succeeded(last) =>
    /\ ~Has(last.out.value, "password")
    /\ ~Has(last.http.body, "password")

C4_Witness ==
  /\ Succeeded(last)
  /\ last.op = "loginUser"
  /\ \E i \in DOMAIN users :
       /\ users[i]._id = last.out.value._id
       /\ Has(users[i], "password")

\* C5: loginUser({username: U, password: S}) returns a user if and only if
\* the store holds an account named U whose stored password is S; it fails
\* when the stored password differs from S, is absent, or S is empty.
C5_LoginIffPasswordMatches ==
  (last.op = "loginUser" /\ last.called /\ ~last.dbFail) =>
    ( Succeeded(last) <=>
        \E i \in DOMAIN users :
          /\ users[i].username = last.input.username
          /\ Has(users[i], "password")
          /\ users[i].password = last.input.password )

\* C6: a well-formed POST /user/login that fails is answered 401 'Failed to
\* login user: Invalid credentials' whether the username has no account or
\* the password is wrong: any two failing logins get the same response.
InvalidCredentialsReply ==
  Reply(401, [error |-> << "Failed to login user: Invalid credentials" >>])

LoginFailure(c) ==
  /\ c.op = "loginUser"
  /\ c.via = "http"
  /\ c.called
  /\ ~c.dbFail
  /\ ~Succeeded(c)

C6_LoginFailuresAlike ==
  /\ LoginFailure(last) => last.http = InvalidCredentialsReply
  /\ \A b1, b2 \in ValidBodies :
       LET o1 == loginUser(users, b1, FALSE).out
           o2 == loginUser(users, b2, FALSE).out
       IN  (Has(o1.value, "error") /\ Has(o2.value, "error"))
             => userLoginReply(o1) = userLoginReply(o2)

C6_Witness ==
  /\ LoginFailure(last)
  /\ FailedWith(last, "Invalid password")
  /\ \E b \in ValidBodies :
       FailedWith([called |-> TRUE, out |-> loginUser(users, b, FALSE).out],
                  "User does not exist")

\* C7: loginUser and getUserByUsername leave the account store as it was,
\* whatever their outcome.
C7_ReadsLeaveStore ==
  last.op \in {"loginUser", "getUserByUsername"} => users = last.before

C7_Witness ==
  /\ last.op = "getUserByUsername"
  /\ Succeeded(last)
  /\ Len(users) = 2

\* where the stored message m sits in the collection
Position(coll, m) == CHOOSE i \in DOMAIN coll : coll[i] = m

\* C8: getMessages returns every persisted message exactly once, in
\* ascending order of msgDateTime, and messages with equal msgDateTime in
\* the order in which the store holds them.
C8_SortedAndStable ==
  (mlast.op = "getMessages" /\ ~mlast.failed) =>
    LET list == mlast.out.value
    IN  /\ ~mlast.out.threw
        /\ mlast.http = Reply(200, list)
        /\ Len(list) = Len(messages)
        /\ \A i \in DOMAIN messages :
             Cardinality({k \in DOMAIN list : list[k] = messages[i]}) = 1
        /\ \A k1, k2 \in DOMAIN list :
             k1 < k2 =>
               /\ list[k1].msgDateTime <= list[k2].msgDateTime
               /\ list[k1].msgDateTime = list[k2].msgDateTime
                    => Position(messages, list[k1]) < Position(messages, list[k2])

C8_Witness ==
  /\ mlast.op = "getMessages"
  /\ ~mlast.failed
  /\ Len(messages) = 2
  /\ messages[1].msgDateTime > messages[2].msgDateTime

\* C9: when the store fails, getMessages resolves to an empty array; GET
\* /messaging/getMessages always answers 200 with a list; the read leaves
\* the message log as it was.
C9_ReadNeverFails ==
  [][ mlast'.op = "getMessages" =>
        /\ ~mlast'.out.threw
        /\ mlast'.http = Reply(200, mlast'.out.value)
        /\ mlast'.failed => mlast'.out.value = << >>
        /\ messages' = messages ]_vars

C9_Witness ==
  /\ mlast.op = "getMessages"
  /\ mlast.failed
  /\ messages # << >>
  /\ mlast.http = Reply(200, << >>)

\* the messageUpdate events of box that carry the message with this _id
EventsFor(box, id) == {k \in DOMAIN box : box[k].msg._id = id}

\* C10: when addMessageRoute emits for a persisted message, every socket
\* connected at that moment receives one messageUpdate event carrying the
\* stored message, no other socket receives anything, and no other step
\* delivers an event: a socket that connects later never receives it.
C10_BroadcastOnce ==
  [][ LET resumed == {p \in Procs : mpc[p] = "saved" /\ mpc'[p] = "idle"}
      IN  IF resumed # {} /\ mlast'.http.status = 200
          THEN LET stored == mlast'.http.body
               IN  /\ \E i \in DOMAIN messages : messages[i] = stored
                   /\ \A s \in Sockets :
                        /\ inbox'[s] = IF s \in subscribers
                                       THEN Append(inbox[s], [msg |-> stored])
                                       ELSE inbox[s]
                        /\ Cardinality(EventsFor(inbox'[s], stored._id))
                             = IF s \in subscribers THEN 1 ELSE 0
          ELSE inbox' = inbox ]_vars

C10_Witness ==
  /\ \A p \in Procs : mpc[p] = "idle"
  /\ Len(messages) = 1
  /\ Len(inbox["s1"]) = 1
  /\ inbox["s1"][1].msg = messages[1]
  /\ "s2" \in subscribers
  /\ inbox["s2"] = << >>

\* the addMessage requests whose saveMessage returned a stored message and
\* that have not emitted yet
AboutToEmit == {p \in Saved : ~Has(mpending[p].out.value, "error")}

\* C11: every messageUpdate event a socket has received carries a message
\* that is in the message log; a socket has received no more events than
\* there are stored messages whose request has gone past its emit; and an
\* addMessage request whose saveMessage returned an error is answered 500
\* 'Error when adding a message: ' followed by that error.
C11_EmitAfterStore ==
  /\ \A s \in Sockets : \A k \in DOMAIN inbox[s] :
       \E i \in DOMAIN messages : messages[i] = inbox[s][k].msg
  /\ \A s \in Sockets : Len(inbox[s]) + Cardinality(AboutToEmit) <= Len(messages)
  /\ (mlast.op = "addMessage" /\ mlast.called /\ Has(mlast.out.value, "error")) =>
       mlast.http = Reply(500, << "Error when adding a message: " >> \o mlast.out.value.error)

C11_Witness ==
  /\ mlast.op = "addMessage"
  /\ mlast.called
  /\ Has(mlast.out.value, "error")
  /\ mlast.http.status = 500
  /\ "s1" \in subscribers
  /\ Len(inbox["s1"]) = 1
  /\ Len(messages) = 1

\* C12: deleteUserByUsername, getUserByUsername and updateUser, called for a
\* username that has no account, return a failure that names 'User does not
\* exist' and leave the store as it was; getUser and deleteUser answer 404.
C12_MissingAccountNotFound ==
  ( /\ last.op \in {"deleteUserByUsername", "getUserByUsername", "updateUser"}
    /\ last.called
    /\ ~last.dbFail
    /\ Matching(last.before, last.input.username) = {} )
  => /\ ~Succeeded(last)
     /\ FailedWith(last, "User does not exist")
     /\ ~FailedWith(last, "User already exists")
     /\ users = last.before
     /\ (last.via = "http" /\ last.op \in {"deleteUserByUsername", "getUserByUsername"})
          => last.http.status = 404

\* the field is missing, empty or only white space
Unusable(obj, field) == ~Has(obj, field) \/ trim(obj[field]) = Empty

BodyOps  == {"saveUser", "loginUser", "updateUser"}
ParamOps == {"getUserByUsername", "deleteUserByUsername"}

\* the request was turned away before the service: nothing was called and
\* the store is as the request found it
TurnedAway(c, status) ==
  /\ c.http.status = status
  /\ ~c.called
  /\ users = c.before

\* C13 as stated: a signup, login or resetPassword request whose username
\* or password is missing, empty or only white space, and a getUser or
\* deleteUser request whose username parameter is empty or only white
\* space, is answered 400 without calling the user service.
C13_MalformedAnswered400 ==
  /\ (last.via = "http" /\ last.op \in BodyOps
        /\ (Unusable(last.input, "username") \/ Unusable(last.input, "password")))
       => TurnedAway(last, 400)
  /\ (last.via = "http" /\ last.op \in ParamOps /\ trim(last.input.username) = Empty)
       => TurnedAway(last, 400)

\* C13 as amended: the same, except that a getUser or deleteUser request
\* with an empty username parameter matches no route and is answered 404,
\* also without calling the user service.
C13_MalformedTurnedAway ==
  /\ (last.via = "http" /\ last.op \in BodyOps
        /\ (Unusable(last.input, "username") \/ Unusable(last.input, "password")))
       => /\ TurnedAway(last, 400)
          /\ last.http = InvalidBodyReply
  /\ (last.via = "http" /\ last.op \in ParamOps /\ trim(last.input.username) = Empty)
       => IF last.input.username = Empty
          THEN TurnedAway(last, 404)
          ELSE /\ TurnedAway(last, 400)
               /\ last.http = InvalidParamReply

C13_Witness ==
  /\ last.via = "http"
  /\ last.op = "updateUser"
  /\ last.input = [username |-> Ua, password |-> Blank]
  /\ Matching(users, Ua) # {}
  /\ last.http.status = 400

\* the text field is missing or empty
NoText(message, field) == ~Has(message, field) \/ message[field] = Empty

\* the last messaging step served an addMessage request
AddMessageStep == mlast.op \in {"saveMessage", "addMessage"}

\* C14: an addMessage request whose msg or msgFrom is missing or empty is
\* answered 400 without calling saveMessage, and no message in the log and
\* no event a socket received has a missing or empty msg or msgFrom.
C14_EmptyMessageRejected ==
  /\ ( /\ AddMessageStep
       /\ Has(mlast.input, "messageToAdd")
       /\ (NoText(mlast.input.messageToAdd, "msg")
            \/ NoText(mlast.input.messageToAdd, "msgFrom")) )
     => (mlast.http.status = 400 /\ ~mlast.called)
  /\ \A i \in DOMAIN messages :
       ~NoText(messages[i], "msg") /\ ~NoText(messages[i], "msgFrom")
  /\ \A s \in Sockets : \A k \in DOMAIN inbox[s] :
       ~NoText(inbox[s][k].msg, "msg") /\ ~NoText(inbox[s][k].msg, "msgFrom")

\* C15: an addMessage request whose body has no messageToAdd field is
\* answered 400 'Invalid request', and saveMessage is not called.
C15_MissingMessageToAdd400 ==
  (AddMessageStep /\ ~Has(mlast.input, "messageToAdd"))
    => (mlast.http = Reply(400, << "Invalid request" >>) /\ ~mlast.called)

\* the request carries a message with a body and a sender but no timestamp
NoTimestamp(c) ==
  /\ Has(c.input, "messageToAdd")
  /\ ~NoText(c.input.messageToAdd, "msg")
  /\ ~NoText(c.input.messageToAdd, "msgFrom")
  /\ ~Has(c.input.messageToAdd, "msgDateTime")

\* C16 as stated: a message submitted with a body and a sender but without
\* a timestamp is accepted: saveMessage is called and, unless the database
\* fails, the log holds the message with msgDateTime set to the current
\* time.
C16_TimestampDefaulted ==
  (AddMessageStep /\ NoTimestamp(mlast)) =>
    /\ mlast.called
    /\ ~mlast.failed =>
         \E i \in DOMAIN messages :
           /\ messages[i].msg = mlast.input.messageToAdd.msg
           /\ messages[i].msgFrom = mlast.input.messageToAdd.msgFrom
           /\ Has(messages[i], "msgDateTime")
           /\ messages[i].msgDateTime = clock

\* C16 as amended: such a message is rejected with 400 'Invalid request
\* body' without calling saveMessage, and every message in the log carries
\* a msgDateTime that a client sent.
C16_TimestampRequired ==
  /\ (AddMessageStep /\ NoTimestamp(mlast)) =>
       /\ mlast.http = Reply(400, << "Invalid request body" >>)
       /\ ~mlast.called
  /\ \A i \in DOMAIN messages :
       Has(messages[i], "msgDateTime") /\ messages[i].msgDateTime \in Dates

C16_Witness ==
  /\ AddMessageStep
  /\ NoTimestamp(mlast)
  /\ mlast.http.status = 400
  /\ Len(messages) = 1
  /\ \A p \in Procs : mpc[p] = "idle"

\* C17: a password reset for a username that has no account is reported as
\* not found: updateUser's failure names 'User does not exist' and differs
\* from the one it returns when the store fails, and resetPassword answers
\* 404.
C17_ResetNotFoundKept ==
  ( /\ last.op = "updateUser"
    /\ last.called
    /\ ~last.dbFail
    /\ Matching(last.before, last.input.username) = {} )
  => /\ last.out # updateUser(last.before, last.input.username, NoFields, TRUE).out
     /\ last.via = "http" =>
          /\ last.http.status = 404
          /\ last.http # resetPasswordReply(
                            updateUser(last.before, last.input.username, NoFields, TRUE).out)

\* the account without its password
WithoutPassword(account) == [k \in DOMAIN account \ {"password"} |-> account[k]]

\* C18: after a successful updateUser(U, {password: P}) the store has the
\* same accounts in the same places; the account named U differs at most in
\* its password, which is P after resetPassword; every other account is as
\* it was.
C18_ResetChangesOnlyPassword ==
  (last.op = "updateUser" /\ Succeeded(last)) =>
    /\ Len(users) = Len(last.before)
    /\ \A i \in DOMAIN users :
         IF last.before[i].username = last.input.username
         THEN /\ WithoutPassword(users[i]) = WithoutPassword(last.before[i])
              /\ last.via = "http" =>
                   (Has(users[i], "password") /\ users[i].password = last.input.password)
         ELSE users[i] = last.before[i]

C18_Witness ==
  /\ last.op = "updateUser"
  /\ last.via = "http"
  /\ Succeeded(last)
  /\ Len(users) = 2
  /\ \E i \in DOMAIN users :
       /\ users[i].username = last.input.username
       /\ Has(last.before[i], "password")
       /\ last.before[i].password # users[i].password

\* C19: a successful deleteUserByUsername(U) returns the account named U
\* that the store held, without its password; afterwards the store has one
\* account fewer, none named U, and every other account as it was.
C19_DeleteRemovesThatAccount ==
  (last.op = "deleteUserByUsername" /\ Succeeded(last)) =>
    \E i \in DOMAIN last.before :
      /\ last.before[i].username = last.input.username
      /\ last.out.value = WithoutPassword(last.before[i])
      /\ Len(users) = Len(last.before) - 1
      /\ \A j \in DOMAIN last.before \ {i} :
           \E k \in DOMAIN users : users[k] = last.before[j]
      /\ \A k \in DOMAIN users : users[k].username # last.input.username

C19_Witness ==
  /\ last.op = "deleteUserByUsername"
  /\ Succeeded(last)
  /\ Len(last.before) = 2
  /\ Len(users) = 1
  /\ Has(last.before[1], "password")

\* C20: no step removes or rewrites a message: after every step the log
\* holds every message it held before, at the same place and with the same
\* _id, msg, msgFrom and msgDateTime, and no two messages share an _id.
C20_LogAppendOnly ==
  [][ /\ Len(messages') >= Len(messages)
      /\ \A i \in DOMAIN messages : messages'[i] = messages[i]
      /\ \A i, j \in DOMAIN messages' :
           messages'[i]._id = messages'[j]._id => i = j ]_vars

C20_Witness ==
  /\ Len(messages) = 2
  /\ mlast.op = "getMessages"
  /\ mlast.out.value # messages
  /\ \A p \in Procs : mpc[p] = "idle"

\* what a socket had received is the beginning of what it has received now
ReceivedInOrder(old, new) ==
  /\ Len(old) <= Len(new)
  /\ SubSeq(new, 1, Len(old)) = old

\* C21: a socket receives events in the order in which addMessageRoute
\* emits them, whichever request saved its message first: every step leaves
\* what a socket had received in place, and a step that emits puts its one
\* event after them.
C21_ReceivedInPublishedOrder ==
  [][ \A s \in Sockets :
        /\ ReceivedInOrder(inbox[s], inbox'[s])
        /\ Len(inbox'[s]) <= Len(inbox[s]) + 1
        /\ Len(inbox'[s]) = Len(inbox[s]) + 1 =>
             /\ mlast'.op = "addMessage"
             /\ inbox'[s][Len(inbox'[s])] = [msg |-> mlast'.http.body] ]_vars

\* two requests were in flight at once and the one that saved second
\* emitted first
C21_Witness ==
  /\ Len(inbox["s1"]) = 2
  /\ inbox["s1"][1].msg._id = 2
  /\ inbox["s1"][2].msg._id = 1
  /\ messages[1]._id = 1

\* the last completed call was saveUser, called by POST /user/signup
SignupServed == last.op = "saveUser" /\ last.via = "http" /\ last.called

\* C22: POST /user/signup answers 409 only if the username had an account
\* when saveUser looked it up; when saveUser fails for another reason the
\* answer is 500 with the failure's message, and the store is as it was.
C22_ConflictOnlyWhenTaken ==
  SignupServed =>
    /\ last.http.status = 409 =>
         (Matching(last.before, last.input.username) # {} /\ ~last.dbFail)
    /\ (last.out.threw /\ ~includes(last.out.value.message, "User already exists")) =>
         /\ last.http = Reply(500, [error |-> << "Failed to create user: " >>
                                              \o last.out.value.message])
         /\ users = last.before
    /\ last.dbFail => (last.http.status = 500 /\ users = last.before)

C22_Witness ==
  /\ SignupServed
  /\ last.dbFail
  /\ last.http.status = 500
  /\ Matching(last.before, last.input.username) # {}
  /\ Len(users) = 2

\* C23: a saveUser call for a username that has an account fails with 'User
\* already exists' and leaves the store as it was: still one account with
\* that username, with the same _id, password and dateJoined.
C23_FailedSignupKeepsStore ==
  ( /\ last.op = "saveUser"
    /\ last.called
    /\ ~last.dbFail
    /\ Matching(last.before, last.input.username) # {} )
  => /\ FailedWith(last, "User already exists")
     /\ Len(users) = Len(last.before)
     /\ Accounts(users, last.input.username) = 1
     /\ \A i \in DOMAIN users : users[i] = last.before[i]

C23_Witness ==
  /\ last.op = "saveUser"
  /\ FailedWith(last, "User already exists")
  /\ \E i \in DOMAIN users :
       /\ users[i].username = last.input.username
       /\ Has(users[i], "password")
       /\ Has(last.input, "password")
       /\ users[i].password # last.input.password
       /\ users[i].dateJoined # clock

\* the password the account returned by the completed call c must hold: the
\* one the call supplied, or else the one the account had before the call
SuppliedPassword(c) ==
  IF c.op = "saveUser" /\ Has(c.input, "password") THEN << c.input.password >>
  ELSE IF c.op = "updateUser" /\ c.via = "http" THEN << c.input.password >>
  ELSE IF c.op = "updateUser" /\ Has(c.input.updates, "password")
       THEN << c.input.updates.password >>
  ELSE << >>

PasswordBefore(c, id) ==
  IF \E i \in DOMAIN c.before : c.before[i]._id = id /\ Has(c.before[i], "password")
  THEN << (CHOOSE a \in {c.before[i] : i \in DOMAIN c.before} : a._id = id).password >>
  ELSE << >>

ExpectedPassword(c, id) ==
  IF SuppliedPassword(c) # << >> THEN SuppliedPassword(c) ELSE PasswordBefore(c, id)

\* C24: after a successful saveUser, loginUser, getUserByUsername or
\* updateUser, the account the call returned without a password is in the
\* store with its password (the one the call supplied, or else the one it
\* had), and loginUser with that username and password returns the account.
C24_StoredPasswordKept ==
  (Succeeded(last)
     /\ last.op \in {"saveUser", "loginUser", "getUserByUsername", "updateUser"}) =>
    /\ ~Has(last.out.value, "password")
    /\ \E i \in DOMAIN users : users[i]._id = last.out.value._id
    /\ \A i \in DOMAIN users :
         (users[i]._id = last.out.value._id
            /\ ExpectedPassword(last, users[i]._id) # << >>) =>
           /\ Has(users[i], "password")
           /\ << users[i].password >> = ExpectedPassword(last, users[i]._id)
           /\ LET again == loginUser(users, [username |-> users[i].username,
                                             password |-> users[i].password], FALSE)
              IN  /\ ~Has(again.out.value, "error")
                  /\ again.out.value._id = users[i]._id

C24_Witness ==
  /\ Succeeded(last)
  /\ last.op = "saveUser"
  /\ last.via = "http"
  /\ ~Has(last.out.value, "password")
  /\ \E i \in DOMAIN users :
       /\ users[i]._id = last.out.value._id
       /\ Has(users[i], "password")
       /\ users[i].password = last.input.password

\* the passwords the accounts named as in the completed call c had before it
OldPasswords(c) ==
  {c.before[i].password :
     i \in {j \in DOMAIN c.before : /\ c.before[j].username = c.input.username
                                    /\ Has(c.before[j], "password")}}

\* the completed call c is a successful resetPassword that replaced the
\* account's password by a different one
PasswordReplaced(c) ==
  /\ c.op = "updateUser"
  /\ c.via = "http"
  /\ Succeeded(c)
  /\ OldPasswords(c) # {}
  /\ c.input.password \notin OldPasswords(c)

\* as long as the store holds the account with this password, loginUser
\* returns the account for it and fails with 'Invalid password' for another
LoginFollowsStore ==
  \A i \in DOMAIN users : Has(users[i], "password") =>
    \A w \in {Px, Py} :
      LET r == [called |-> TRUE,
                out |-> loginUser(users, [username |-> users[i].username,
                                          password |-> w], FALSE).out]
      IN  IF w = users[i].password THEN Succeeded(r)
          ELSE FailedWith(r, "Invalid password")

\* the step completes a loginUser call that follows a resetPassword for the
\* same username: it succeeds with the new password and fails with the old
LoginRightAfterReset ==
  ( /\ PasswordReplaced(last)
    /\ last'.op = "loginUser"
    /\ last'.called
    /\ ~last'.dbFail
    /\ last'.input.username = last.input.username )
  => /\ last'.input.password = last.input.password => Succeeded(last')
     /\ last'.input.password \in OldPasswords(last) =>
          FailedWith(last', "Invalid password")

\* C25: when the call that follows a successful resetPassword(U, P2) that
\* replaced P1 is a loginUser for U, it returns the account if it is given
\* P2 and fails with 'Invalid password' if it is given P1; and in every
\* later state in which U's account still holds P2, loginUser would.
C25_LoginAfterReset == []LoginFollowsStore /\ [][LoginRightAfterReset]_vars

C25_Witness ==
  /\ PasswordReplaced(last)
  /\ \E old \in OldPasswords(last) :
       FailedWith([called |-> TRUE,
                   out |-> loginUser(users, [username |-> last.input.username,
                                             password |-> old], FALSE).out],
                  "Invalid password")
  /\ ~Has(loginUser(users, last.input, FALSE).out.value, "error")

\* the step completes a call for the username that the call before it, a
\* successful deleteUserByUsername, removed
CallRightAfterDelete ==
  /\ last.op = "deleteUserByUsername"
  /\ Succeeded(last)
  /\ last' # last
  /\ last'.called
  /\ ~last'.dbFail
  /\ last'.input.username = last.input.username

\* C26: the call that follows a successful deleteUserByUsername(U) fails
\* with 'User does not exist' when it is getUserByUsername, loginUser,
\* updateUser or deleteUserByUsername for U, and succeeds when it is
\* saveUser for U.
C26_GoneAfterDelete ==
  [][ CallRightAfterDelete =>
        IF last'.op = "saveUser" THEN Succeeded(last')
        ELSE FailedWith(last', "User does not exist") ]_vars

====
